---------------------------- MODULE Spec2Model ----------------------------
(***************************************************************************)
(* nanohost: the HTTP/SSE channel (src/nanobot/channels/http.py) and the   *)
(* workspace tool runner (src/nanobot/agent/tools/workspace.py).           *)
(*                                                                         *)
(* Spec      the HTTP channel: the _pending table, one asyncio.Queue per   *)
(*           POST /chat request, the handler's position at each await.     *)
(* SpecLive  Spec under the event loop's scheduling (fairness).            *)
(* SpecTool  one call of WorkspaceTool.execute and the subprocess it runs. *)
(* SpecLoad  one call of load_workspace_tools over the bundles found.      *)
(***************************************************************************)
EXTENDS Integers, Sequences, FiniteSets, TLC

(***************************************************************************)
(* Bounds of the model.                                                    *)
(***************************************************************************)
MaxSends == 3
MaxBundles == 3

\* The POST /chat requests of a run.
Reqs == {1, 2}

(***************************************************************************)
(* Text as the HTTP handler sees it: a sequence of characters.             *)
(***************************************************************************)
IsSpace(c) == c = " "

RECURSIVE LStrip(_)
LStrip(s) ==
    IF s = <<>> THEN <<>>
    ELSE IF IsSpace(Head(s)) THEN LStrip(Tail(s)) ELSE s

RECURSIVE RStrip(_)
RStrip(s) ==
    IF s = <<>> THEN <<>>
    ELSE IF IsSpace(s[Len(s)]) THEN RStrip(SubSeq(s, 1, Len(s) - 1)) ELSE s

\* str.strip()
Strip(s) == RStrip(LStrip(s))

\* The session identifiers that occur (already stripped, non-empty).
SessionIds == {<<"a">>, <<"b">>}

\* The raw "session_id" and "message" fields a client may post.
RawIds == {<<>>, <<" ">>, <<"a">>, <<" ", "a", " ">>, <<"b">>}
RawMessages == {<<>>, <<" ">>, <<"h", "i">>}

\* A request body: text that is no JSON, JSON that is no object (a list, a
\* string, a number), or an object.  session_id and message are the texts of
\* the two fields (a missing field reads as "" through body.get(key, ""));
\* sid_str and msg_str are FALSE for a field whose value is no string (null, a
\* number, a list).
Bodies ==
    {[json |-> FALSE, object |-> FALSE, session_id |-> <<>>, message |-> <<>>,
      sid_str |-> TRUE, msg_str |-> TRUE],
     [json |-> TRUE, object |-> FALSE, session_id |-> <<>>, message |-> <<>>,
      sid_str |-> TRUE, msg_str |-> TRUE]}
    \cup {b \in [json : {TRUE}, object : {TRUE}, session_id : RawIds,
                 message : RawMessages, sid_str : BOOLEAN, msg_str : BOOLEAN] :
              /\ ~b.sid_str => b.session_id = <<>>
              /\ ~b.msg_str => b.message = <<>>}

(***************************************************************************)
(* OutboundMessage as the channel uses it: an identity (standing for the   *)
(* content), chat_id and the progress flag.  None is the end-of-stream     *)
(* sentinel.                                                               *)
(***************************************************************************)
None == [id |-> 0, chat_id |-> <<>>, progress |-> FALSE]
OutboundMessage(n, s, p) == [id |-> n, chat_id |-> s, progress |-> p]

\* One SSE event as _write_sse writes it: the event type and the content.
SSE(event, content) == [event |-> event, content |-> content]

VARIABLES
    running,    \* self._running
    site,       \* self._site: "none", "up" (listening), "stopped"
    pending,    \* self._pending: session id -> the request whose queue is registered, 0 absent
    queue,      \* per request, every item put on its asyncio.Queue, in put order
    rd,         \* per request, how many items of its queue q.get() has taken
    pc,         \* per request, the handler's position
    sid,        \* per request, session_id after strip()
    status,     \* per request, the HTTP status answered (0: none yet)
    events,     \* per request, the SSE events written to the client, in order
    exit,       \* per request, the edge that left the streaming loop
    pops,       \* per request, how often its finally clause ran _pending.pop
    last,       \* per session id, the request that registered most recently (0: none)
    bus,        \* the requests whose inbound message _handle_message published
    nsent,      \* the number of send()/edit() calls so far
    warned,     \* the messages send() logged as "no pending request for chat_id"
    tpc,        \* execute(): position
    exists,     \* execute(): self._run_script.exists()
    proc,       \* the subprocess: "none", "running", "killed" (SIGKILL sent), "exited"
    reaped,     \* the event loop has finished the subprocess transport
    returncode, \* process.returncode
    stdout,     \* what the subprocess wrote to standard output
    stderr,     \* what the subprocess wrote to standard error
    timedout,   \* asyncio.wait_for raised TimeoutError
    spawns,     \* how many subprocesses this call created
    result,     \* what execute() returned
    bundles,    \* load_workspace_tools(): tool_dirs, the bundles found, in scan order
    builtin,    \* the names in the registry before the call
    registry,   \* the registry: name -> who registered it (0: nobody)
    idx,        \* load_workspace_tools(): the bundle the loop is at
    count,      \* load_workspace_tools(): count
    lpc         \* load_workspace_tools(): "idle", "scan", "done" (returned), "raised"

httpVars == <<running, site, pending, queue, rd, pc, sid, status, events, exit,
              pops, last, bus, nsent, warned>>
toolVars == <<tpc, exists, proc, reaped, returncode, stdout, stderr, timedout,
              spawns, result>>
loadVars == <<bundles, builtin, registry, idx, count, lpc>>
vars == <<httpVars, toolVars, loadVars>>


(***************************************************************************)
(* The session router: the operations on self._pending and the queues.     *)
(***************************************************************************)
\* Register as a bug would have it: an existing registration is kept.
RegisterKeepFirst(p, s, r) == IF p[s] = 0 THEN [p EXCEPT ![s] = r] ELSE p

\* self._pending[session_id] = q
Register(p, s, r) == [p EXCEPT ![s] = r]

\* Pop as a bug would have it: the teardown of a request empties the table.
PopAll(p, s) == [t \in SessionIds |-> 0]

\* self._pending.pop(session_id, None)
Pop(p, s) == [p EXCEPT ![s] = 0]

\* await q.put(item) on the unbounded queue of request r
Put(q, r, item) == [q EXCEPT ![r] = Append(@, item)]

\* Deliver as a bug would have it: with no sink registered, the message is
\* left on the queue of the request that registered last under the identifier.
DeliverBuffered(p, q, s, msg) ==
    IF p[s] # 0 THEN Put(q, p[s], msg)
    ELSE IF last[s] # 0 THEN Put(q, last[s], msg) ELSE q

\* q = self._pending.get(chat_id); if q: await q.put(msg)
Deliver(p, q, s, msg) == IF p[s] # 0 THEN Put(q, p[s], msg) ELSE q

\* for q in self._pending.values(): await q.put(None)
PutAll(p, q) ==
    [r \in Reqs |-> IF \E s \in SessionIds : p[s] = r THEN Append(q[r], None) ELSE q[r]]

\* self._pending.clear()
Clear(p) == [s \in SessionIds |-> 0]

(***************************************************************************)
(* Init: the channel as constructed, no request yet.                       *)
(***************************************************************************)
HttpInit ==
    /\ running = FALSE
    /\ site = "none"
    /\ pending = [s \in SessionIds |-> 0]
    /\ queue = [r \in Reqs |-> <<>>]
    /\ rd = [r \in Reqs |-> 0]
    /\ pc = [r \in Reqs |-> "idle"]
    /\ sid = [r \in Reqs |-> <<>>]
    /\ status = [r \in Reqs |-> 0]
    /\ events = [r \in Reqs |-> <<>>]
    /\ exit = [r \in Reqs |-> "none"]
    /\ pops = [r \in Reqs |-> 0]
    /\ last = [s \in SessionIds |-> 0]
    /\ bus = {}
    /\ nsent = 0
    /\ warned = {}

ToolIdle ==
    /\ tpc = "idle"
    /\ exists = FALSE
    /\ proc = "none"
    /\ reaped = FALSE
    /\ returncode = 0
    /\ stdout = <<>>
    /\ stderr = <<>>
    /\ timedout = FALSE
    /\ spawns = 0
    /\ result = [kind |-> "none"]

\* The tool names that occur.
Names == {"t1", "t2"}

LoadIdle ==
    /\ bundles = <<>>
    /\ builtin = {}
    /\ registry = [n \in Names |-> 0]
    /\ idx = 1
    /\ count = 0
    /\ lpc = "idle"

Init == HttpInit /\ ToolIdle /\ LoadIdle

(***************************************************************************)
(* HTTPChannel.start / stop / send / edit                                  *)
(***************************************************************************)
Start ==
    /\ site = "none"
    /\ running' = TRUE
    /\ site' = "up"
    /\ UNCHANGED <<pending, queue, rd, pc, sid, status, events, exit, pops, last,
                   bus, nsent, warned>>
    /\ UNCHANGED <<toolVars, loadVars>>

Stop ==
    /\ running' = FALSE
    /\ queue' = PutAll(pending, queue)
    /\ pending' = Clear(pending)
    /\ site' = IF site = "up" THEN "stopped" ELSE site
    /\ UNCHANGED <<rd, pc, sid, status, events, exit, pops, last, bus, nsent, warned>>
    /\ UNCHANGED <<toolVars, loadVars>>

Send(s, progress) ==
    /\ nsent < MaxSends
    /\ nsent' = nsent + 1
    /\ queue' = Deliver(pending, queue, s, OutboundMessage(nsent + 1, s, progress))
    /\ warned' = IF pending[s] # 0 THEN warned
                 ELSE warned \cup {[id |-> nsent + 1, chat_id |-> s]}
    /\ UNCHANGED <<running, site, pending, rd, pc, sid, status, events, exit, pops,
                   last, bus>>
    /\ UNCHANGED <<toolVars, loadVars>>

Edit(s) ==
    /\ nsent < MaxSends
    /\ nsent' = nsent + 1
    /\ queue' = Deliver(pending, queue, s, OutboundMessage(nsent + 1, s, TRUE))
    /\ UNCHANGED <<running, site, pending, rd, pc, sid, status, events, exit, pops,
                   last, bus, warned>>
    /\ UNCHANGED <<toolVars, loadVars>>

(***************************************************************************)
(* HTTPChannel._handle_chat, one action per stretch between two awaits.    *)
(***************************************************************************)
\* POST /chat, lines 120-141: the body is read and validated, and a valid
\* request registers its queue.  Nothing of the channel is read or written
\* before line 141, so the stretch is one step.  The handler runs once start()
\* has set the routes up; a handler that was waiting for its body when stop()
\* closed the site still goes on.  Requests are numbered in the order they
\* begin, and session identifiers are named in the order they first register.
Begin(r, body) ==
    /\ pc[r] = "idle"
    /\ \A o \in Reqs : o < r => pc[o] # "idle"
    /\ Strip(body.session_id) = <<"b">> => last[<<"a">>] # 0
    /\ site # "none"
    /\ IF body.json /\ (~body.object \/ ~body.sid_str \/ ~body.msg_str)
       THEN \* lines 127-128: body.get or .strip() raises AttributeError, which
            \* leaves the handler; the server answers 500
            /\ status' = [status EXCEPT ![r] = 500]
            /\ pc' = [pc EXCEPT ![r] = "failed"]
            /\ UNCHANGED <<pending, sid, last>>
       ELSE IF ~body.json \/ Strip(body.session_id) = <<>> \/ Strip(body.message) = <<>>
       THEN /\ status' = [status EXCEPT ![r] = 400]
            /\ pc' = [pc EXCEPT ![r] = "rejected"]
            /\ UNCHANGED <<pending, sid, last>>
       ELSE /\ sid' = [sid EXCEPT ![r] = Strip(body.session_id)]
            /\ pending' = Register(pending, Strip(body.session_id), r)
            /\ last' = [last EXCEPT ![Strip(body.session_id)] = r]
            /\ pc' = [pc EXCEPT ![r] = "registered"]
            /\ UNCHANGED status
    /\ UNCHANGED <<running, site, queue, rd, events, exit, pops, bus, nsent, warned>>
    /\ UNCHANGED <<toolVars, loadVars>>

\* await response.prepare(request) completes: the 200 and the headers are out.
Prepare(r) ==
    /\ pc[r] = "registered"
    /\ status' = [status EXCEPT ![r] = 200]
    /\ pc' = [pc EXCEPT ![r] = "prepared"]
    /\ UNCHANGED <<running, site, pending, queue, rd, sid, events, exit, pops, last,
                   bus, nsent, warned>>
    /\ UNCHANGED <<toolVars, loadVars>>

\* await self._handle_message(...) completes: the inbound message is on the bus.
Publish(r) ==
    /\ pc[r] = "prepared"
    /\ bus' = bus \cup {r}
    /\ pc' = [pc EXCEPT ![r] = "open"]
    /\ UNCHANGED <<running, site, pending, queue, rd, sid, status, events, exit,
                   pops, last, nsent, warned>>
    /\ UNCHANGED <<toolVars, loadVars>>

\* response.prepare or _handle_message raises, or the handler task is cancelled
\* there (the client went away): lines 143-161 are outside the try, so the
\* exception leaves _handle_chat with no cleanup.
Crash(r) ==
    /\ pc[r] \in {"registered", "prepared"}
    /\ pc' = [pc EXCEPT ![r] = "crashed"]
    /\ UNCHANGED <<running, site, pending, queue, rd, sid, status, events, exit,
                   pops, last, bus, nsent, warned>>
    /\ UNCHANGED <<toolVars, loadVars>>

\* Finally as a bug would have it: the sentinel edge returns without cleanup.
FinallyNotOnSentinel(r, edge) ==
    /\ pending' = IF edge = "sentinel" THEN pending ELSE Pop(pending, sid[r])
    /\ pops' = [pops EXCEPT ![r] = IF edge = "sentinel" THEN @ ELSE @ + 1]
    /\ exit' = [exit EXCEPT ![r] = edge]
    /\ pc' = [pc EXCEPT ![r] = "closed"]

\* finally: self._pending.pop(session_id, None); the handler ends.
Finally(r, edge) ==
    /\ pending' = Pop(pending, sid[r])
    /\ pops' = [pops EXCEPT ![r] = @ + 1]
    /\ exit' = [exit EXCEPT ![r] = edge]
    /\ pc' = [pc EXCEPT ![r] = "closed"]

\* Writes as a bug would have it: done is written before the final message.
WritesDoneFirst(msg) ==
    IF msg.progress THEN <<SSE("progress", msg.id)>>
    ELSE <<SSE("done", 0), SSE("message", msg.id)>>

\* The events one pass of the loop body writes for the item it took, in order:
\* lines 178-187 for a message, lines 169-171 for the timeout.
Writes(msg) ==
    IF msg.progress THEN <<SSE("progress", msg.id)>>
    ELSE <<SSE("message", msg.id), SSE("done", 0)>>

\* Lines 169-172 as a bug would have them: the timeout ends the stream silently.
TimeoutWritesNothing == <<>>

TimeoutWrites == <<SSE("error", 0)>>

\* The first n of the writes ws reach the client; the next one, if any, raises
\* ConnectionResetError or ConnectionAbortedError (the client went away).
Written(ws, n) == SubSeq(ws, 1, IF n < Len(ws) THEN n ELSE Len(ws))

\* msg = await asyncio.wait_for(q.get(), timeout=300) returns an item, and the
\* loop body runs on it: lines 174-188, then the except and finally clauses.
\* n is the number of writes the connection still takes.
Get(r, n) ==
    /\ pc[r] = "open"
    /\ rd[r] < Len(queue[r])
    /\ rd' = [rd EXCEPT ![r] = @ + 1]
    /\ LET msg == queue[r][rd[r] + 1] IN
         IF msg = None
         THEN /\ Finally(r, "sentinel")
              /\ UNCHANGED events
         ELSE /\ events' = [events EXCEPT ![r] = @ \o Written(Writes(msg), n)]
              /\ IF n < Len(Writes(msg)) THEN Finally(r, "disconnect")
                 ELSE IF msg.progress
                      THEN UNCHANGED <<pending, pops, exit, pc>>
                      ELSE Finally(r, "final")
    /\ UNCHANGED <<running, site, queue, sid, status, last, bus, nsent, warned>>
    /\ UNCHANGED <<toolVars, loadVars>>

\* Line 167 as a bug would have it: q.get() is awaited with no deadline.
TimeoutNever(r, n) ==
    /\ FALSE
    /\ UNCHANGED vars

\* The queue stayed empty for 300 seconds: asyncio.TimeoutError, lines 168-172.
Timeout(r, n) ==
    /\ pc[r] = "open"
    /\ rd[r] = Len(queue[r])
    /\ events' = [events EXCEPT ![r] = @ \o Written(TimeoutWrites, n)]
    /\ Finally(r, IF n < Len(TimeoutWrites) THEN "disconnect" ELSE "timeout")
    /\ UNCHANGED <<running, site, queue, rd, sid, status, last, bus, nsent, warned>>
    /\ UNCHANGED <<toolVars, loadVars>>

\* The handler task is cancelled while it waits on the queue (the client closed
\* the connection): the finally clause runs, the exception leaves the handler.
Disconnect(r) ==
    /\ pc[r] = "open"
    /\ Finally(r, "disconnect")
    /\ UNCHANGED <<running, site, queue, rd, sid, status, events, last, bus, nsent,
                   warned>>
    /\ UNCHANGED <<toolVars, loadVars>>

Next ==
    \/ Start
    \/ Stop
    \/ \E s \in SessionIds, p \in BOOLEAN : Send(s, p)
    \/ \E s \in SessionIds : Edit(s)
    \/ \E r \in Reqs, body \in Bodies : Begin(r, body)
    \/ \E r \in Reqs : Prepare(r)
    \/ \E r \in Reqs : Publish(r)
    \/ \E r \in Reqs : Crash(r)
    \/ \E r \in Reqs, n \in 0..2 : Get(r, n)
    \/ \E r \in Reqs, n \in 0..1 : Timeout(r, n)
    \/ \E r \in Reqs : Disconnect(r)

Spec == Init /\ [][Next]_vars

\* One pass of the streaming loop of request r: wait_for returns an item or
\* raises TimeoutError, and the pass runs to its next await or to the end.
LoopPass(r) ==
    \/ \E n \in 0..2 : Get(r, n)
    \/ \E n \in 0..1 : Timeout(r, n)

\* The channel under the event loop's scheduling: a handler that waits at line
\* 167 is resumed, by an item on its queue or by the 300 second deadline, and
\* the writes of the pass complete or fail.
SpecLive == Init /\ [][Next]_vars /\ \A r \in Reqs : WF_vars(LoopPass(r))


(***************************************************************************)
(* Properties of the HTTP channel.                                         *)
(***************************************************************************)
IsPrefix(a, b) == Len(a) <= Len(b) /\ a = SubSeq(b, 1, Len(a))

Items(r) == {queue[r][i] : i \in 1..Len(queue[r])}

\* The handler of r has registered and has not ended.
Live(r) == pc[r] \in {"registered", "prepared", "open"}

\* The handler of r has ended after it registered.
Ended(r) == pc[r] \in {"crashed", "closed"}

\* C1: a session identifier has at most one registered sink, the one of the
\* request that registered last under it; a registration puts the new sink in
\* the table, and a send() or edit() enqueues only on the sink of the request
\* that registered last, never on the sink of an earlier request.
C1_LatestRegistrationWins ==
    /\ [](\A s \in SessionIds : pending[s] \in {0, last[s]})
    /\ [][\A r \in Reqs :
            /\ (pc[r] = "idle" /\ pc'[r] = "registered") => pending'[sid'[r]] = r
            /\ (nsent' # nsent /\ queue'[r] # queue[r]) => last[sid[r]] = r]_vars

\* Two requests registered under one identifier, the first still streaming, and
\* a message sent since is on the queue of the second.
C1_Witness ==
    \E r1, r2 \in Reqs :
        /\ r1 < r2 /\ pc[r1] = "open" /\ Live(r2)
        /\ sid[r1] = sid[r2] /\ pending[sid[r2]] = r2
        /\ \E m \in Items(r2) : m # None

\* The stream a client is due for the items put on a queue: a progress event
\* per progress message in order, up to the first final message, which gives a
\* message event and then done; the sentinel ends it with nothing.
RECURSIVE Stream(_)
Stream(q) ==
    IF q = <<>> \/ Head(q) = None THEN <<>>
    ELSE IF Head(q).progress
         THEN <<SSE("progress", Head(q).id)>> \o Stream(Tail(q))
         ELSE <<SSE("message", Head(q).id), SSE("done", 0)>>

\* C2: the events written for a request follow the order in which the messages
\* were enqueued on its sink: they are a prefix of the progress events in
\* production order, then message, then done (followed only by the error event
\* of an inactivity timeout); a request that ended on its final message has
\* written all of them; done is only ever the last event and comes right after
\* the message event, whatever is enqueued afterwards.
C2_EventsFollowProduction ==
    \A r \in Reqs :
        LET e == events[r] IN
        /\ exit[r] # "timeout" => IsPrefix(e, Stream(queue[r]))
        /\ exit[r] = "timeout" =>
               /\ e # <<>> /\ e[Len(e)] = SSE("error", 0)
               /\ IsPrefix(SubSeq(e, 1, Len(e) - 1), Stream(queue[r]))
        /\ exit[r] = "final" => e = Stream(queue[r])
        /\ \A i \in 1..Len(e) :
               e[i].event = "done" =>
                   i = Len(e) /\ i > 1 /\ e[i - 1].event = "message"

\* Two progress messages and the final one were delivered in order.
C2_Witness ==
    \E r \in Reqs :
        /\ exit[r] = "final"
        /\ Len(events[r]) = 4
        /\ events[r][1].event = "progress" /\ events[r][2].event = "progress"
        /\ events[r][1].content < events[r][2].content

\* C3: while a request is live and no later request registered under its
\* session identifier (and stop() has not retired its sink), its sink is the
\* one in the table; the end of another request never removes it.
C3_SinkLivesWithRequest ==
    \A r \in Reqs :
        (Live(r) /\ last[sid[r]] = r /\ None \notin Items(r))
            => pending[sid[r]] = r

\* C4: the step of stop() puts the sentinel on the sink of every request that
\* is blocked reading its sink at that moment, and leaves the table empty.
C4_StopWakesEveryReader ==
    [][(running /\ ~running') =>
          /\ \A r \in Reqs :
                 (pc[r] = "open" /\ rd[r] = Len(queue[r]))
                     => queue'[r] = Append(queue[r], None)
          /\ \A s \in SessionIds : pending'[s] = 0]_vars

\* C5: a request that has not left its streaming loop has run no teardown, and
\* a request that left it, by whichever edge, has run the teardown exactly once.
C5_TeardownExactlyOnce ==
    \A r \in Reqs :
        /\ pc[r] # "closed" => pops[r] = 0 /\ exit[r] = "none"
        /\ pc[r] = "closed" =>
               /\ pops[r] = 1
               /\ exit[r] \in {"final", "sentinel", "timeout", "disconnect"}

\* One request left the loop on the sentinel, the other by a disconnect.
C5_Witness ==
    \E r1, r2 \in Reqs :
        /\ pc[r1] = "closed" /\ exit[r1] = "sentinel"
        /\ pc[r2] = "closed" /\ exit[r2] = "disconnect"

\* C6: once the handler of a request that registered has ended, its sink is not
\* in the table.
C6_NoLeakedSink ==
    \A r \in Reqs : Ended(r) => pending[sid[r]] # r

\* C7: a send() that finds no sink for its session identifier changes neither
\* the table nor any sink, and the message it logged as dropped is on no sink,
\* then or later.
C7_DropWithoutSink ==
    /\ [](\A w \in warned : \A r \in Reqs : \A m \in Items(r) : m.id # w.id)
    /\ [][warned' # warned =>
            /\ \E s \in SessionIds :
                   /\ pending[s] = 0
                   /\ warned' = warned \cup {[id |-> nsent', chat_id |-> s]}
            /\ pending' = pending
            /\ queue' = queue]_vars

\* A message was dropped for an identifier, a request registered under it
\* later and has received a later message.
C7_Witness ==
    \E w \in warned, r \in Reqs :
        /\ sid[r] = w.chat_id /\ pc[r] = "open"
        /\ \E m \in Items(r) : m.id > w.id

\* How many events of type ev were written for request r.
Count(r, ev) == Cardinality({i \in 1..Len(events[r]) : events[r][i].event = ev})

\* C14: the step that takes the sentinel writes nothing and the stream of a
\* request ended by it has progress events only; the step of the inactivity
\* timeout writes the one error event, which is the last event of a stream with
\* no done; an error event is written on no other edge; done is written only
\* right after a message event.
C14_StreamEdges ==
    /\ [](\A r \in Reqs :
            /\ exit[r] = "sentinel" =>
                   \A i \in 1..Len(events[r]) : events[r][i].event = "progress"
            /\ exit[r] = "timeout" =>
                   /\ Count(r, "error") = 1 /\ Count(r, "done") = 0
                   /\ events[r][Len(events[r])] = SSE("error", 0)
            /\ exit[r] # "timeout" => Count(r, "error") = 0
            /\ \A i \in 1..Len(events[r]) :
                   events[r][i].event = "done" => (i > 1 /\ events[r][i - 1].event = "message"))
    /\ [][\A r \in Reqs :
            /\ (exit[r] = "none" /\ exit'[r] = "sentinel") => events'[r] = events[r]
            /\ (exit[r] = "none" /\ exit'[r] = "timeout")
                   => events'[r] = Append(events[r], SSE("error", 0))
            /\ (Count(r, "done") = 0 /\ Count(r, "done")' = 1)
                   => /\ Len(events'[r]) = Len(events[r]) + 2
                      /\ events'[r][Len(events[r]) + 1].event = "message"
                      /\ exit'[r] = "final"]_vars

\* One stream was ended by the sentinel after a progress event, the other by
\* the inactivity timeout after a progress event.
C14_Witness ==
    \E r1, r2 \in Reqs :
        /\ exit[r1] = "sentinel" /\ Len(events[r1]) = 1
        /\ exit[r2] = "timeout" /\ Len(events[r2]) = 2

\* C15: a POST /chat whose body is malformed, or whose session_id or message is
\* missing or empty after trimming, is answered with 400 and changes neither
\* the table nor the bus nor any sink.
C15_BadRequestIs400 ==
    [][\A r \in Reqs :
          (pc[r] = "idle" /\ pc'[r] \in {"rejected", "failed"}) =>
              /\ status'[r] = 400
              /\ pending' = pending /\ last' = last
              /\ bus' = bus /\ queue' = queue]_vars

\* What the channel holds for request r.
ReqState(r) == <<pc[r], sid[r], queue[r], rd[r], events[r], exit[r], pops[r], status[r]>>

\* C17: a sink is registered only under the session identifier of its request
\* and holds only messages addressed to that identifier; and every step other
\* than stop() (registration, delivery, timeout, disconnect, teardown) changes
\* the table entry, the sinks and the streams of one session identifier at
\* most, the one the step is for.
C17_SessionsIsolated ==
    /\ [](\A r \in Reqs :
            /\ \A s \in SessionIds : pending[s] = r => sid[r] = s
            /\ \A m \in Items(r) : m # None => m.chat_id = sid[r])
    /\ [][(\A r \in Reqs : queue'[r] = queue[r] \/ queue'[r][Len(queue'[r])] # None) =>
            \A s, t \in SessionIds :
                LET touched(u) ==
                        \/ pending'[u] # pending[u]
                        \/ \E r \in Reqs : sid'[r] = u /\ ReqState(r)' # ReqState(r)
                IN  (touched(s) /\ touched(t)) => s = t]_vars

\* Two sessions were streaming, each with a message on its sink; one was ended
\* by the inactivity timeout and the other is still open and registered.
C17_Witness ==
    \E r1, r2 \in Reqs :
        /\ sid[r1] # sid[r2]
        /\ exit[r1] = "timeout" /\ events[r1] # <<SSE("error", 0)>>
        /\ pc[r2] = "open" /\ pending[sid[r2]] = r2
        /\ \E m \in Items(r2) : m.progress

\* C19: a request is published only after it registered, and no send() drops a
\* message for the session identifier of a published request that is still
\* open, was not superseded by a later registration and was not retired by
\* stop().
C19_NoDropWhileOpen ==
    /\ [](\A r \in bus : pc[r] \in {"open", "closed"} /\ last[sid[r]] # 0)
    /\ [][warned' # warned =>
            \A r \in bus :
                (pc[r] = "open" /\ last[sid[r]] = r /\ None \notin Items(r))
                    => [id |-> nsent', chat_id |-> sid[r]] \notin warned']_vars

\* C18: every request that reaches the streaming loop eventually leaves it,
\* has run its teardown and its handler has ended.
C18_OpenReachesClosed ==
    \A r \in Reqs : (pc[r] = "open") ~> (pc[r] = "closed" /\ pops[r] = 1)

\* A request that never received anything was ended by the inactivity timeout.
C18_Witness ==
    \E r \in Reqs :
        /\ pc[r] = "closed" /\ exit[r] = "timeout"
        /\ queue[r] = <<>> /\ events[r] = <<SSE("error", 0)>>


(***************************************************************************)
(* WorkspaceTool.execute                                                   *)
(*                                                                         *)
(* Text is kept run-length encoded, a sequence of runs [c, n] (n times the *)
(* character c, neighbouring runs of different characters), so that output *)
(* around the 10,000 character cap is checked at its real length.          *)
(***************************************************************************)
MaxChars == 10000

Run(c, n) == [c |-> c, n |-> n]

\* The characters str.strip() removes.
IsWhite(c) == c \in {" ", "\n"}

RECURSIVE TLen(_)
\* len(text)
TLen(t) == IF t = <<>> THEN 0 ELSE Head(t).n + TLen(Tail(t))

RECURSIVE TLStrip(_)
TLStrip(t) ==
    IF t = <<>> THEN <<>>
    ELSE IF IsWhite(Head(t).c) THEN TLStrip(Tail(t)) ELSE t

RECURSIVE TRStrip(_)
TRStrip(t) ==
    IF t = <<>> THEN <<>>
    ELSE IF IsWhite(t[Len(t)].c) THEN TRStrip(SubSeq(t, 1, Len(t) - 1)) ELSE t

\* text.strip()
TStrip(t) == TRStrip(TLStrip(t))

RECURSIVE TTake(_, _)
\* text[:k]
TTake(t, k) ==
    IF t = <<>> \/ k <= 0 THEN <<>>
    ELSE IF Head(t).n <= k THEN <<Head(t)>> \o TTake(Tail(t), k - Head(t).n)
         ELSE <<Run(Head(t).c, k)>>

\* bytes.decode("utf-8", errors="replace"): a byte that is no valid UTF-8
\* ("bad") becomes U+FFFD, every other character is kept.
Decode(b) == [i \in 1..Len(b) |-> IF b[i].c = "bad" THEN Run("U+FFFD", b[i].n) ELSE b[i]]

\* f"\n... (truncated, {k} more chars)", kept as one token that carries k.
Trailer(k) == <<Run("\n... (truncated, k more chars)", k)>>

\* The literal "(no output)".
NoOutput == <<Run("(no output)", 1)>>

\* What execute() returns: the return statement taken, and its text.
ToolResult(kind, code, text) == [kind |-> kind, code |-> code, text |-> text]

\* Lines 64-77 as a bug would have them: standard error is appended to the output.
OutcomeMixStderr(rc, out, err) ==
    LET res == TStrip(Decode(out)) \o TStrip(Decode(err)) IN
    IF rc # 0 THEN ToolResult("Failed", rc, TStrip(Decode(err)))
    ELSE IF res = <<>> THEN ToolResult("EmptyOk", 0, NoOutput)
    ELSE IF TLen(res) > MaxChars
         THEN ToolResult("Ok", 0, TTake(res, MaxChars) \o Trailer(TLen(res) - MaxChars))
         ELSE ToolResult("Ok", 0, res)

\* Lines 73-75 as a bug would have them: the omitted count is taken after the
\* text has been cut.
OutcomeCountAfterCut(rc, out, err) ==
    LET res == TStrip(Decode(out)) IN
    IF rc # 0 THEN ToolResult("Failed", rc, TStrip(Decode(err)))
    ELSE IF res = <<>> THEN ToolResult("EmptyOk", 0, NoOutput)
    ELSE IF TLen(res) > MaxChars
         THEN ToolResult("Ok", 0, TTake(res, MaxChars)
                                  \o Trailer(TLen(TTake(res, MaxChars)) - MaxChars))
         ELSE ToolResult("Ok", 0, res)

\* Lines 64-71 as a bug would have them: the output is looked at before the
\* exit code.
OutcomeOutputFirst(rc, out, err) ==
    LET res == TStrip(Decode(out)) IN
    IF res = <<>> THEN ToolResult("EmptyOk", 0, NoOutput)
    ELSE IF rc # 0 THEN ToolResult("Failed", rc, TStrip(Decode(err)))
    ELSE IF TLen(res) > MaxChars
         THEN ToolResult("Ok", 0, TTake(res, MaxChars) \o Trailer(TLen(res) - MaxChars))
         ELSE ToolResult("Ok", 0, res)

\* Lines 64-77: the result for a process that ended with returncode rc and
\* wrote out and err.
Outcome(rc, out, err) ==
    LET res == TStrip(Decode(out)) IN
    IF rc # 0 THEN ToolResult("Failed", rc, TStrip(Decode(err)))
    ELSE IF res = <<>> THEN ToolResult("EmptyOk", 0, NoOutput)
    ELSE IF TLen(res) > MaxChars
         THEN ToolResult("Ok", 0, TTake(res, MaxChars) \o Trailer(TLen(res) - MaxChars))
         ELSE ToolResult("Ok", 0, res)

\* Line 62: return f"Error: Tool ... timed out after ...s"
TimedOutResult == ToolResult("TimedOut", 0, <<>>)

\* Line 44: return f"Error: run.py not found for tool ..."
NotFoundResult == ToolResult("ExecutionError", 0, <<>>)

\* The except clause as a bug would have it: the exception is not caught.
OnExceptionUncaught(exc) == ToolResult("Raised", 0, <<Run(exc, 1)>>)

\* Lines 79-80: except Exception as e: return f"Error executing tool ...: {e}"
OnException(exc) == ToolResult("ExecutionError", 0, <<Run(exc, 1)>>)

\* What a run.py may write: nothing, a short text, text with inner and outer
\* whitespace, invalid bytes, and texts of MaxChars - 1, MaxChars and more.
Bodies0 ==
    { <<>>,
      <<Run("x", 1)>>,
      <<Run("x", 1), Run(" ", 1), Run("y", 1)>>,
      <<Run("bad", 1), Run("x", 1)>>,
      <<Run("x", MaxChars - 1)>>,
      <<Run("x", MaxChars - 1), Run("y", 1)>>,
      <<Run("x", MaxChars), Run("y", 1)>>,
      <<Run("x", MaxChars - 1), Run("\n", 1), Run("y", MaxChars)>> }

Pad == {<<>>, <<Run(" ", 1)>>, <<Run("\n", 1)>>}

Outputs == {l \o b \o t : l \in Pad, b \in Bodies0, t \in Pad}

ErrOutputs == {<<>>, <<Run("\n", 1)>>, <<Run("e", 1)>>, <<Run("e", 1), Run("\n", 1)>>}

\* Exit codes of a run.py that ends by itself.
ExitCodes == {0, 1, 2}

\* The state at the call of execute(): the tool is loaded, run.py is there or
\* not, nothing is spawned.
ToolInit ==
    /\ tpc = "start"
    /\ exists \in BOOLEAN
    /\ proc = "none"
    /\ reaped = FALSE
    /\ returncode = 0
    /\ stdout = <<>>
    /\ stderr = <<>>
    /\ timedout = FALSE
    /\ spawns = 0
    /\ result = [kind |-> "none"]

\* Lines 43-46: the entry point is looked up and the arguments are serialised.
CheckScript ==
    /\ tpc = "start"
    /\ IF exists
       THEN tpc' = "spawn" /\ UNCHANGED result
       ELSE tpc' = "returned" /\ result' = NotFoundResult
    /\ UNCHANGED <<exists, proc, reaped, returncode, stdout, stderr, timedout, spawns>>
    /\ UNCHANGED <<httpVars, loadVars>>

\* Lines 49-54: create_subprocess_exec starts the process, or raises (OSError:
\* the interpreter or the directory is gone, the argument is too long).
Spawn(ok) ==
    /\ tpc = "spawn"
    /\ IF ok
       THEN /\ proc' = "running"
            /\ spawns' = spawns + 1
            /\ tpc' = "communicate"
            /\ UNCHANGED result
       ELSE /\ result' = OnException("OSError")
            /\ tpc' = "returned"
            /\ UNCHANGED <<proc, spawns>>
    /\ UNCHANGED <<exists, reaped, returncode, stdout, stderr, timedout>>
    /\ UNCHANGED <<httpVars, loadVars>>

\* The subprocess ends by itself, having written out and err.
ProcExit(rc, out, err) ==
    /\ proc = "running"
    /\ proc' = "exited"
    /\ returncode' = rc
    /\ stdout' = out
    /\ stderr' = err
    /\ UNCHANGED <<tpc, exists, reaped, timedout, spawns, result>>
    /\ UNCHANGED <<httpVars, loadVars>>

\* The operating system ends a process that SIGKILL was sent to.
ProcDie ==
    /\ proc = "killed"
    /\ proc' = "exited"
    /\ returncode' = 0 - 9
    /\ UNCHANGED <<tpc, exists, reaped, stdout, stderr, timedout, spawns, result>>
    /\ UNCHANGED <<httpVars, loadVars>>

\* Lines 57-59 and 64-77: communicate() returns within the timeout.
Communicate ==
    /\ tpc = "communicate"
    /\ proc = "exited"
    /\ reaped' = TRUE
    /\ result' = Outcome(returncode, stdout, stderr)
    /\ tpc' = "returned"
    /\ UNCHANGED <<exists, proc, returncode, stdout, stderr, timedout, spawns>>
    /\ UNCHANGED <<httpVars, loadVars>>

\* Lines 57-59 and 79-80: communicate() raises (MemoryError when the collected
\* output is joined, the error of a failed pipe read).  The except clause
\* returns the error text; it does nothing to the process.
CommunicateRaises ==
    /\ tpc = "communicate"
    /\ proc \in {"running", "exited"}
    /\ result' = OnException("MemoryError")
    /\ tpc' = "returned"
    /\ UNCHANGED <<exists, proc, reaped, returncode, stdout, stderr, timedout, spawns>>
    /\ UNCHANGED <<httpVars, loadVars>>

\* The timeout elapses with the process still running: wait_for cancels
\* communicate() and waits for the cancellation before it raises TimeoutError.
TimeoutElapsed ==
    /\ tpc = "communicate"
    /\ proc = "running"
    /\ timedout' = TRUE
    /\ tpc' = "cancel"
    /\ UNCHANGED <<exists, proc, reaped, returncode, stdout, stderr, spawns, result>>
    /\ UNCHANGED <<httpVars, loadVars>>

\* While execute() waits, the event loop sees that the process has ended and
\* closes its transport.
Reap ==
    /\ tpc = "cancel"
    /\ proc = "exited"
    /\ ~reaped
    /\ reaped' = TRUE
    /\ UNCHANGED <<tpc, exists, proc, returncode, stdout, stderr, timedout, spawns, result>>
    /\ UNCHANGED <<httpVars, loadVars>>

\* Lines 60-62 as a bug would have them: after the kill the tool is run again.
KillAndRetry ==
    /\ tpc = "cancel"
    /\ tpc' = "spawn"
    /\ proc' = IF proc = "running" /\ ~reaped THEN "killed" ELSE proc
    /\ UNCHANGED <<exists, reaped, returncode, stdout, stderr, timedout, spawns, result>>
    /\ UNCHANGED <<httpVars, loadVars>>

\* Lines 60-62: process.kill() and the return.  kill() sends SIGKILL and does
\* not wait; on a process that has ended it does nothing, and on a closed
\* transport it raises ProcessLookupError, which line 79 catches.
Kill ==
    /\ tpc = "cancel"
    /\ IF reaped
       THEN result' = OnException("ProcessLookupError") /\ UNCHANGED proc
       ELSE /\ result' = TimedOutResult
            /\ proc' = IF proc = "running" THEN "killed" ELSE proc
    /\ tpc' = "returned"
    /\ UNCHANGED <<exists, reaped, returncode, stdout, stderr, timedout, spawns>>
    /\ UNCHANGED <<httpVars, loadVars>>

ToolNext ==
    \/ CheckScript
    \/ \E ok \in BOOLEAN : Spawn(ok)
    \/ \E rc \in ExitCodes, out \in Outputs, err \in ErrOutputs : ProcExit(rc, out, err)
    \/ ProcDie
    \/ Communicate
    \/ CommunicateRaises
    \/ TimeoutElapsed
    \/ Reap
    \/ Kill

InitTool == HttpInit /\ ToolInit /\ LoadIdle

SpecTool == InitTool /\ [][ToolNext]_vars

(***************************************************************************)
(* load_workspace_tools: the loop over the tool directories found.         *)
(***************************************************************************)
\* What tool.json of a bundle may hold, by what lines 111-125 do with it:
\*   "oserror"  it cannot be read (read_text raises OSError)
\*   "badjson"  text that is no JSON (json.loads raises JSONDecodeError)
\*   "badutf8"  bytes that are no UTF-8 (read_text raises UnicodeDecodeError)
\*   "number"   JSON that is a number or null
\*   "string"   JSON that is a string with "name" in it, or a list with "name"
\*   "object"   a JSON object, without "name" (name = "") or with it
Manifests ==
    {[kind |-> k, name |-> ""] : k \in {"oserror", "badjson", "badutf8", "number", "string"}}
    \cup [kind : {"object"}, name : Names \cup {""}]

\* A bundle: a directory with tool.json, and with run.py or without.
Bundles == [manifest : Manifests, run : BOOLEAN]

RECURSIVE SeqsUpTo(_, _)
\* The sequences over S of length at most k.
SeqsUpTo(S, k) ==
    IF k = 0 THEN {<<>>}
    ELSE LET shorter == SeqsUpTo(S, k - 1) IN
         shorter \cup {Append(q, x) : q \in {p \in shorter : Len(p) = k - 1}, x \in S}

\* Who registered a name that was in the registry before the call.
Before == MaxBundles + 2

\* registry.has(name)
RegistryHas(reg, n) == reg[n] # 0

\* registry.register(tool)
RegistryRegister(reg, n, who) == [reg EXCEPT ![n] = who]

\* The state at the call of load_workspace_tools(workspace, registry).
LoadInit ==
    /\ bundles \in SeqsUpTo(Bundles, MaxBundles)
    /\ builtin \in {{}, {"t1"}}
    /\ registry = [n \in Names |-> IF n \in builtin THEN Before ELSE 0]
    /\ idx = 1
    /\ count = 0
    /\ lpc = "scan"

\* continue: the loop goes to the next bundle.
Skip ==
    /\ idx' = idx + 1
    /\ UNCHANGED <<registry, count, lpc>>

\* An exception that no except clause of the loop catches leaves
\* load_workspace_tools.
Raise ==
    /\ lpc' = "raised"
    /\ UNCHANGED <<registry, count, idx>>

\* Lines 108-133: one pass of the loop, on bundle idx.
LoadStep ==
    /\ lpc = "scan"
    /\ idx <= Len(bundles)
    /\ LET b == bundles[idx]
           m == b.manifest
       IN  IF m.kind \in {"oserror", "badjson"} THEN Skip             \* lines 113-115
           ELSE IF m.kind = "badutf8" THEN Raise                      \* line 112
           ELSE IF m.kind = "number" THEN Raise                       \* line 117
           ELSE IF m.kind = "object" /\ m.name = "" THEN Skip         \* lines 117-119
           ELSE IF ~b.run THEN Skip                                   \* lines 121-123
           ELSE IF m.kind = "string" THEN Raise                       \* lines 125, 24
           ELSE IF RegistryHas(registry, m.name) THEN Skip           \* lines 127-129
           ELSE /\ registry' = RegistryRegister(registry, m.name, idx)
                /\ count' = count + 1
                /\ idx' = idx + 1
                /\ UNCHANGED lpc
    /\ UNCHANGED <<bundles, builtin>>
    /\ UNCHANGED <<httpVars, toolVars>>

\* Line 135: return count
LoadReturn ==
    /\ lpc = "scan"
    /\ idx > Len(bundles)
    /\ lpc' = "done"
    /\ UNCHANGED <<bundles, builtin, registry, idx, count>>
    /\ UNCHANGED <<httpVars, toolVars>>

LoadNext ==
    \/ LoadStep
    \/ LoadReturn

InitLoad == HttpInit /\ ToolIdle /\ LoadInit

SpecLoad == InitLoad /\ [][LoadNext]_vars

(***************************************************************************)
(* Properties of WorkspaceTool.execute.                                    *)
(***************************************************************************)
\* execute() has returned.
Returned == tpc = "returned"

\* The process ended by itself within the timeout, communicate() returned its
\* output (the transport is finished) and execute() returned on it.
Completed == Returned /\ spawns = 1 /\ ~timedout /\ proc = "exited" /\ reaped

\* The trimmed, decoded standard output of the process.
Trimmed == TStrip(Decode(stdout))

\* C8: when the timeout elapsed with the process still running, execute()
\* returns TimedOut and the process has ended by the time it has returned.
C8_TimeoutKills ==
    (Returned /\ timedout) => (result.kind = "TimedOut" /\ proc = "exited")

C10_OkVerbatim ==
    (Completed /\ returncode = 0 /\ TLen(Trimmed) <= MaxChars)
        => result.text = Trimmed

\* C10, amended: exit code 0 and a non-empty trimmed output of at most 10,000
\* characters give the Ok outcome whose text is the trimmed output, with
\* nothing of standard error in it; an empty trimmed output gives "(no output)".
C10_OkVerbatimNonEmpty ==
    (Completed /\ returncode = 0 /\ TLen(Trimmed) <= MaxChars) =>
        /\ Trimmed # <<>> => result = ToolResult("Ok", 0, Trimmed)
        /\ Trimmed = <<>> => result = ToolResult("EmptyOk", 0, NoOutput)

\* Exit code 0, padded output of exactly 10,000 characters once trimmed, and
\* something on standard error.
C10_Witness ==
    /\ Completed /\ returncode = 0
    /\ TLen(Trimmed) = MaxChars /\ TLen(stdout) > MaxChars
    /\ TStrip(Decode(stderr)) # <<>>
    /\ result.kind = "Ok"

\* C11: exit code 0 and a trimmed output of L > 10,000 characters give the Ok
\* outcome whose text is the first 10,000 characters of the trimmed output
\* followed by the trailer that states L - 10,000 omitted characters.
C11_TruncatedWithTrailer ==
    (Completed /\ returncode = 0 /\ TLen(Trimmed) > MaxChars) =>
        LET kept == SubSeq(result.text, 1, Len(result.text) - 1)
            tail == result.text[Len(result.text)]
        IN  /\ result.kind = "Ok"
            /\ TLen(kept) = MaxChars
            /\ kept = TTake(Trimmed, MaxChars)
            /\ <<tail>> = Trailer(TLen(Trimmed) - MaxChars)

\* A padded output of 10,001 characters once trimmed: one character is omitted.
C11_Witness ==
    /\ Completed /\ returncode = 0
    /\ TLen(Trimmed) = MaxChars + 1 /\ TLen(stdout) > MaxChars + 1
    /\ result.kind = "Ok"
    /\ result.text[Len(result.text)] = Run("\n... (truncated, k more chars)", 1)

\* C12: a non-zero exit code gives Failed with that exit code and the trimmed
\* text of standard error (nothing when that is empty), whatever standard
\* output was: never Ok, never EmptyOk.
C12_NonZeroIsFailed ==
    (Completed /\ returncode # 0) =>
        /\ result.kind = "Failed"
        /\ result.code = returncode
        /\ result.text = TStrip(Decode(stderr))
        /\ result.kind \notin {"Ok", "EmptyOk"}

\* Exit code 2 with nothing on standard output and a text on standard error.
C12_Witness ==
    /\ Completed /\ returncode = 2
    /\ Trimmed = <<>>
    /\ TStrip(Decode(stderr)) # <<>>
    /\ result.kind = "Failed"

\* C13 as claimed: one call of execute() spawns no subprocess when run.py is
\* missing (the result is ExecutionError, not Failed), exactly one otherwise,
\* and never a second one.
C13_OneSpawnPerCall ==
    /\ spawns <= 1
    /\ Returned =>
           /\ ~exists => (spawns = 0 /\ result.kind = "ExecutionError")
           /\ exists => spawns = 1

\* C13, amended: no subprocess when run.py is missing (ExecutionError, not
\* Failed), exactly one otherwise unless starting it fails, which gives
\* ExecutionError with no subprocess; never a second one, and a subprocess
\* there is iff one was spawned.
C13_AtMostOneSpawn ==
    /\ spawns <= 1
    /\ (proc = "none") <=> (spawns = 0)
    /\ Returned =>
           /\ ~exists => (spawns = 0 /\ result = NotFoundResult /\ result.kind # "Failed")
           /\ exists => \/ spawns = 1
                        \/ spawns = 0 /\ result = OnException("OSError")

\* A call that timed out and killed its one subprocess has returned.
C13_Witness ==
    Returned /\ exists /\ spawns = 1 /\ timedout /\ result.kind = "TimedOut"

\* C20: on every return of execute() a subprocess the call spawned has ended
\* or has been sent the kill.
C20_NoProcessLeftRunning ==
    (Returned /\ spawns = 1) => proc \in {"exited", "killed"}


(***************************************************************************)
(* Properties of load_workspace_tools.                                     *)
(***************************************************************************)
\* Bundle i is valid: its manifest is an object with a name, and run.py is there.
Valid(i) ==
    /\ bundles[i].manifest.kind = "object"
    /\ bundles[i].manifest.name # ""
    /\ bundles[i].run

\* Who is due to hold name n after the scan of the first k bundles: whoever
\* held it before the call, else the first valid bundle with that name.
Holder(n, k) ==
    IF n \in builtin THEN Before
    ELSE LET cands == {i \in 1..k : Valid(i) /\ bundles[i].manifest.name = n} IN
         IF cands = {} THEN 0 ELSE CHOOSE i \in cands : \A j \in cands : i <= j

\* C16: no bundle makes load_workspace_tools give up: the scan goes past every
\* invalid bundle, at every point of it each name is held by the first that
\* claimed it among the bundles scanned (never replaced), and the count
\* returned is the number of tools this call registered.
C16_InvalidBundlesSkipped ==
    /\ lpc # "raised"
    /\ lpc \in {"scan", "done"} =>
           /\ \A n \in Names : registry[n] = Holder(n, idx - 1)
           /\ count = Cardinality({n \in Names : registry[n] \in 1..Len(bundles)})
    /\ lpc = "done" => idx = Len(bundles) + 1

=============================================================================
